---- MODULE Spec2Model ----
(***************************************************************************)
(* Model of the project-state backend: the plan schema validator, the LLM  *)
(* client with its retry loop, and the request handlers that load, update  *)
(* and persist a project's plan.                                           *)
(*                                                                         *)
(* Python values are tagged records [t |-> <type>, v |-> <payload>]:       *)
(*   "None", "int", "str" (payload: the characters, one per element),      *)
(*   "list" (payload: a sequence of values), "dict" (payload: a function   *)
(*   from key to value) and "json": a str holding JSON text (payload: the  *)
(*   value it encodes and its indentation).                                *)
(***************************************************************************)
EXTENDS Integers, Sequences, FiniteSets, TLC

\* ------------------------------------------------------------------ bounds
\* Largest max_retries argument explored for the LLM client on its own.
MaxRetriesArg == 3
\* Number of projects that can be created.
MaxProjects == 1
\* Number of requests that can be in flight at once.
NumReqs == 2
\* Number of uploads that reach the file-search service.
MaxUploads == 1
\* Largest number of documents of a project given to the context assembler
\* on its own.
MaxDocs == 49

\* call_deepseek_llm's default max_retries, used by both pipelines.
DefaultMaxRetries == 3

\* ----------------------------------------------------------- Python values
PyNone == [t |-> "None", v |-> "None"]
PyInt(n) == [t |-> "int", v |-> n]
PyStr(chars) == [t |-> "str", v |-> chars]
PyList(seq) == [t |-> "list", v |-> seq]
PyDict(f) == [t |-> "dict", v |-> f]

IsStr(x) == x.t \in {"str", "json"}
IsDict(x) == x.t = "dict"
IsList(x) == x.t = "list"

\* The empty mapping (a function with the empty domain).
EmptyMap == [k \in {} |-> PyNone]

\* ------------------------------------------------------------ str methods
Whitespace == {" ", "\t", "\n"}

RECURSIVE LStrip(_)
LStrip(s) == IF s # <<>> /\ Head(s) \in Whitespace THEN LStrip(Tail(s)) ELSE s

RECURSIVE RStrip(_)
RStrip(s) ==
    IF s # <<>> /\ s[Len(s)] \in Whitespace
    THEN RStrip(SubSeq(s, 1, Len(s) - 1))
    ELSE s

\* str.strip() on the characters of a str.
Strip(s) == RStrip(LStrip(s))

UpperToLower ==
    [c \in {"A", "C", "I", "K", "L", "P", "R", "T"} |->
        CASE c = "A" -> "a" [] c = "C" -> "c" [] c = "I" -> "i"
          [] c = "K" -> "k" [] c = "L" -> "l" [] c = "P" -> "p"
          [] c = "R" -> "r" [] c = "T" -> "t"]

\* str.lower(), over the alphabet the modelled messages use.
Lower(s) == [i \in 1..Len(s) |-> IF s[i] \in DOMAIN UpperToLower THEN UpperToLower[s[i]] ELSE s[i]]

\* Python's `keyword in s` on strs: keyword occurs as a contiguous substring.
Contains(s, keyword) ==
    \E i \in 1..(Len(s) - Len(keyword) + 1) :
        SubSeq(s, i, i + Len(keyword) - 1) = keyword

\* --------------------------------------------------------------- json
\* json.dumps(value) and json.dumps(value, indent=n): the resulting str, as
\* the value it encodes and the layout it was written with.
JsonDumps(value) == [t |-> "json", v |-> [indent |-> 0, value |-> value]]
JsonDumpsIndent(value, n) == [t |-> "json", v |-> [indent |-> n, value |-> value]]

\* json.loads(s): the decoded value, or the exception raised.
\*   a str holding JSON text decodes to its value, any other str raises
\*   JSONDecodeError, a non-str argument raises TypeError.
JsonLoads(s) ==
    CASE s.t = "json" -> [ok |-> TRUE, value |-> s.v.value, exc |-> "none"]
      [] s.t = "str"  -> [ok |-> FALSE, value |-> PyNone, exc |-> "JSONDecodeError"]
      [] OTHER        -> [ok |-> FALSE, value |-> PyNone, exc |-> "TypeError"]

\* ------------------------------------------------------- ProjectPlan schema
PlanFields == {"tasks", "risks", "milestones"}

\* List[Dict[str, Any]]
IsListOfDict(x) == IsList(x) /\ \A i \in 1..Len(x.v) : IsDict(x.v[i])

\* List[str]
IsListOfStr(x) == IsList(x) /\ \A i \in 1..Len(x.v) : IsStr(x.v[i])

FieldValid(name, x) ==
    IF name = "risks" THEN IsListOfStr(x) ELSE IsListOfDict(x)

\* A variant of the schema with extra = "ignore": keys beyond the declared
\* fields are dropped.
ProjectPlanIgnoreExtras(data) ==
    IF ~IsDict(data)
    THEN [ok |-> FALSE, exc |-> "TypeError", plan |-> PyNone]
    ELSE IF \E f \in PlanFields \cap DOMAIN data.v : ~FieldValid(f, data.v[f])
    THEN [ok |-> FALSE, exc |-> "ValidationError", plan |-> PyNone]
    ELSE [ok |-> TRUE, exc |-> "none",
          plan |-> PyDict([k \in PlanFields |->
                              IF k \in DOMAIN data.v THEN data.v[k] ELSE PyList(<<>>)])]

\* ProjectPlan(**data).model_dump(): the three declared fields, each
\* defaulting to the empty list, plus every extra key (extra = "allow").
\* Unpacking a value that is not a mapping raises TypeError before pydantic
\* runs; a declared field of the wrong shape raises ValidationError.
ProjectPlan(data) ==
    IF ~IsDict(data)
    THEN [ok |-> FALSE, exc |-> "TypeError", plan |-> PyNone]
    ELSE IF \E f \in PlanFields \cap DOMAIN data.v : ~FieldValid(f, data.v[f])
    THEN [ok |-> FALSE, exc |-> "ValidationError", plan |-> PyNone]
    ELSE [ok |-> TRUE, exc |-> "none",
          plan |-> PyDict([k \in PlanFields \cup DOMAIN data.v |->
                              IF k \in DOMAIN data.v THEN data.v[k] ELSE PyList(<<>>)])]

\* ---------------------------------------------------------- LLM client
KwRateLimit == <<"r", "a", "t", "e", " ", "l", "i", "m", "i", "t">>
KwTimeout == <<"t", "i", "m", "e", "o", "u", "t">>
KwConnection == <<"c", "o", "n", "n", "e", "c", "t", "i", "o", "n">>
KwTemporary == <<"t", "e", "m", "p", "o", "r", "a", "r", "y">>
KwTryAgain == <<"t", "r", "y", " ", "a", "g", "a", "i", "n">>

\* The keywords that mark an error as transient.
TransientKeywords == {KwRateLimit, KwTimeout, KwConnection, KwTemporary, KwTryAgain}

\* is_transient = any(keyword in str(e).lower() for keyword in [...])
IsTransient(msg) == \E kw \in TransientKeywords : Contains(Lower(msg), kw)

\* Messages of the exceptions the provider call can raise.
MsgRateLimit == <<"R", "a", "t", "e", " ", "l", "i", "m", "i", "t">>
MsgTimeout == <<"T", "i", "m", "e", "o", "u", "t">>
MsgConnection == <<"C", "o", "n", "n", "e", "c", "t", "i", "o", "n">>
MsgTemporary == <<"t", "e", "m", "p", "o", "r", "a", "r", "y">>
MsgTryAgain == <<"P", "l", "s", " ", "t", "r", "y", " ", "a", "g", "a", "i", "n">>
MsgInvalidKey == <<"I", "n", "v", "a", "l", "i", "d", " ", "k", "e", "y">>
MsgBlocked == <<"C", "o", "n", "t", "e", "n", "t", " ", "r", "i", "s", "k">>

ErrorMessages ==
    {MsgRateLimit, MsgTimeout, MsgConnection, MsgTemporary, MsgTryAgain,
     MsgInvalidKey, MsgBlocked}

\* One provider call's outcome: the content of response.choices[0].message,
\* or the message of the exception that client.chat.completions.create raised.
Reply(content) == [ok |-> TRUE, content |-> content, msg |-> <<>>]
Failure(msg) == [ok |-> FALSE, content |-> PyNone, msg |-> msg]

NoError == [type |-> "none", attempts |-> 0, cause |-> <<>>]
LLMCallFailed(attempts, msg) ==
    [type |-> "RuntimeError", attempts |-> attempts, cause |-> msg]

\* 2 ** attempt
RECURSIVE Pow2(_)
Pow2(n) == IF n <= 0 THEN 1 ELSE 2 * Pow2(n - 1)

\* Entry of call_deepseek_llm: the frame before the first loop iteration.
\* range(max_retries + 1) is empty when max_retries < 0: the loop body never
\* runs and the function falls off its end, returning None.
ClientEnter(max_retries) ==
    [max_retries |-> max_retries,
     attempt     |-> 0,
     calls       |-> 0,
     waits       |-> <<>>,
     status      |-> IF max_retries + 1 <= 0 THEN "returned" ELSE "running",
     value       |-> PyNone,
     exc         |-> NoError]

\* Variants of the loop body. The first gives up one attempt early, the
\* second has its return after the loop instead of inside it, the third
\* retries every error, whatever its message.
ClientIterOffByOne(frame, outcome) ==
    IF outcome.ok
    THEN [frame EXCEPT !.calls = @ + 1, !.status = "returned",
                       !.value = outcome.content]
    ELSE IF frame.attempt + 1 >= frame.max_retries \/ ~IsTransient(outcome.msg)
    THEN [frame EXCEPT !.calls = @ + 1, !.status = "raised",
                       !.exc = LLMCallFailed(frame.attempt + 1, outcome.msg)]
    ELSE [frame EXCEPT !.calls = @ + 1,
                       !.waits = Append(@, Pow2(frame.attempt)),
                       !.attempt = @ + 1]

ClientIterNoReturn(frame, outcome) ==
    IF outcome.ok
    THEN [frame EXCEPT !.calls = @ + 1, !.value = outcome.content,
                       !.status = IF frame.attempt = frame.max_retries
                                  THEN "returned" ELSE "running",
                       !.attempt = @ + 1]
    ELSE IF frame.attempt = frame.max_retries \/ ~IsTransient(outcome.msg)
    THEN [frame EXCEPT !.calls = @ + 1, !.status = "raised",
                       !.exc = LLMCallFailed(frame.attempt + 1, outcome.msg)]
    ELSE [frame EXCEPT !.calls = @ + 1,
                       !.waits = Append(@, Pow2(frame.attempt)),
                       !.attempt = @ + 1]

ClientIterRetryAll(frame, outcome) ==
    IF outcome.ok
    THEN [frame EXCEPT !.calls = @ + 1, !.status = "returned",
                       !.value = outcome.content]
    ELSE IF frame.attempt = frame.max_retries
    THEN [frame EXCEPT !.calls = @ + 1, !.status = "raised",
                       !.exc = LLMCallFailed(frame.attempt + 1, outcome.msg)]
    ELSE [frame EXCEPT !.calls = @ + 1,
                       !.waits = Append(@, Pow2(frame.attempt)),
                       !.attempt = @ + 1]

\* A variant whose wait grows by one second per retry instead of doubling.
ClientIterLinearBackoff(frame, outcome) ==
    IF outcome.ok
    THEN [frame EXCEPT !.calls = @ + 1, !.status = "returned",
                       !.value = outcome.content]
    ELSE IF frame.attempt = frame.max_retries \/ ~IsTransient(outcome.msg)
    THEN [frame EXCEPT !.calls = @ + 1, !.status = "raised",
                       !.exc = LLMCallFailed(frame.attempt + 1, outcome.msg)]
    ELSE [frame EXCEPT !.calls = @ + 1,
                       !.waits = Append(@, frame.attempt + 1),
                       !.attempt = @ + 1]

\* One iteration of the retry loop, given the provider's outcome for it.
ClientIter(frame, outcome) ==
    IF outcome.ok
    THEN [frame EXCEPT !.calls = @ + 1, !.status = "returned",
                       !.value = outcome.content]
    ELSE IF frame.attempt = frame.max_retries \/ ~IsTransient(outcome.msg)
    THEN [frame EXCEPT !.calls = @ + 1, !.status = "raised",
                       !.exc = LLMCallFailed(frame.attempt + 1, outcome.msg)]
    ELSE [frame EXCEPT !.calls = @ + 1,
                       !.waits = Append(@, Pow2(frame.attempt)),
                       !.attempt = @ + 1]

\* The whole call, against a provider that answers with `outcomes` in order
\* (as many of them as the loop asks for).
RECURSIVE RunClient(_, _)
RunClient(frame, outcomes) ==
    IF frame.status # "running" \/ outcomes = <<>>
    THEN frame
    ELSE RunClient(ClientIter(frame, Head(outcomes)), Tail(outcomes))

\* ------------------------------------------------------------- LLM agents
\* What state_updater_llm / recommender_llm hand back: a value, or the
\* exception they raise (its type and the leading text of its message).
Returned(value) == [ok |-> TRUE, value |-> value, type |-> "none", msg |-> "none"]
Raised(type, msg) == [ok |-> FALSE, value |-> PyNone, type |-> type, msg |-> msg]

\* Variants of state_updater_llm. The first returns the decoded value without
\* validating it; the second fills the keys the model left out from
\* current_plan.
state_updater_unvalidated(current_plan, frame) ==
    IF frame.status = "raised"
    THEN Raised("RuntimeError", "DeepSeek LLM call failed")
    ELSE LET loaded == JsonLoads(frame.value)
         IN  IF ~loaded.ok
             THEN IF loaded.exc = "JSONDecodeError"
                  THEN Raised("ValueError", "LLM returned invalid JSON")
                  ELSE Raised("RuntimeError", "State updater LLM failed")
             ELSE Returned(loaded.value)

state_updater_filling(current_plan, frame) ==
    IF frame.status = "raised"
    THEN Raised("RuntimeError", "DeepSeek LLM call failed")
    ELSE LET loaded == JsonLoads(frame.value)
             validated == ProjectPlan(loaded.value)
         IN  IF ~loaded.ok
             THEN IF loaded.exc = "JSONDecodeError"
                  THEN Raised("ValueError", "LLM returned invalid JSON")
                  ELSE Raised("RuntimeError", "State updater LLM failed")
             ELSE IF ~validated.ok
             THEN IF validated.exc = "ValidationError"
                  THEN Raised("ValueError", "LLM returned invalid plan structure or data")
                  ELSE Raised("RuntimeError", "State updater LLM failed")
             ELSE Returned(PyDict([k \in DOMAIN validated.plan.v |->
                              IF k \in DOMAIN loaded.value.v \/ ~IsDict(current_plan)
                                 \/ k \notin DOMAIN current_plan.v
                              THEN validated.plan.v[k] ELSE current_plan.v[k]]))

\* state_updater_llm(current_plan, update_text), given the finished frame of
\* its call_deepseek_llm(prompt_messages, json_mode=True). current_plan only
\* enters the prompt.
state_updater_llm(current_plan, frame) ==
    IF frame.status = "raised"
    THEN Raised("RuntimeError", "DeepSeek LLM call failed")
    ELSE LET loaded == JsonLoads(frame.value)
             validated == ProjectPlan(loaded.value)
         IN  IF ~loaded.ok
             THEN IF loaded.exc = "JSONDecodeError"
                  THEN Raised("ValueError", "LLM returned invalid JSON")
                  ELSE Raised("RuntimeError", "State updater LLM failed")
             ELSE IF ~validated.ok
             THEN IF validated.exc = "ValidationError"
                  THEN Raised("ValueError", "LLM returned invalid plan structure or data")
                  ELSE Raised("RuntimeError", "State updater LLM failed")
             ELSE Returned(validated.plan)

\* A variant of recommender_llm that tests the reply with `if not
\* markdown_report` alone, without strip().
recommender_llm_unstripped(current_plan, frame) ==
    IF frame.status = "raised"
    THEN Raised("RuntimeError", "DeepSeek LLM call failed")
    ELSE IF ~IsStr(frame.value)
    THEN Raised("ValueError", "LLM returned non-string response")
    ELSE IF frame.value.t = "str" /\ frame.value.v = <<>>
    THEN Raised("ValueError", "LLM returned empty response")
    ELSE Returned(frame.value)

\* recommender_llm(current_plan, user_question), given the finished frame of
\* its call_deepseek_llm(prompt_messages, json_mode=False).
recommender_llm(current_plan, frame) ==
    IF frame.status = "raised"
    THEN Raised("RuntimeError", "DeepSeek LLM call failed")
    ELSE IF ~IsStr(frame.value)
    THEN Raised("ValueError", "LLM returned non-string response")
    ELSE IF frame.value.t = "str" /\ Strip(frame.value.v) = <<>>
    THEN Raised("ValueError", "LLM returned empty response")
    ELSE Returned(frame.value)

\* ------------------------------------------------------------ data domains
TaskA == PyDict([id |-> PyInt(1)])
TaskB == PyDict([id |-> PyInt(2)])
RiskA == PyStr(<<"r">>)

\* default_plan = {'tasks': [], 'risks': [], 'milestones': []}
DefaultPlan ==
    PyDict([tasks |-> PyList(<<>>), risks |-> PyList(<<>>), milestones |-> PyList(<<>>)])

PlanA ==
    PyDict([tasks |-> PyList(<<TaskA>>), risks |-> PyList(<<RiskA>>),
            milestones |-> PyList(<<>>)])
\* omits risks and milestones
PlanTasksOnly == PyDict([tasks |-> PyList(<<TaskB>>)])
\* omits tasks and milestones, carries an extra key
PlanExtra == PyDict([risks |-> PyList(<<>>), owner |-> PyStr(<<"o">>)])
\* tasks is not a list; a risk is not a str
PlanBadTasks == PyDict([tasks |-> PyStr(<<"x">>)])
PlanBadRisks == PyDict([risks |-> PyList(<<PyInt(1)>>)])

\* well-formed JSON whose top level is not an object
NonObjects == {PyList(<<PyStr(<<"t">>)>>), PyStr(<<"s">>), PyInt(1), PyNone}

TextNotJson == <<"n", "o", "t", " ", "j", "s", "o", "n">>
TextBlank == <<" ", "\n">>
TextReport == <<"#", " ", "N", "e", "x", "t">>

\* What the chat model can put in response.choices[0].message.content.
ModelContents ==
    {JsonDumps(x) : x \in {PlanA, PlanTasksOnly, PlanExtra, PlanBadTasks, PlanBadRisks}
                           \cup NonObjects}
    \cup {PyStr(TextNotJson), PyStr(TextBlank), PyStr(<<>>), PyStr(TextReport), PyNone}

\* Provider behaviours a pipeline call is run against: an immediate reply of
\* each content, a reply after one transient failure, transient failures
\* throughout, a permanent failure at once or after a transient one.
ProviderScripts ==
    {<<Reply(c)>> : c \in ModelContents}
    \cup {<<Failure(MsgRateLimit), Reply(JsonDumps(PlanA))>>,
          <<Failure(MsgTimeout), Failure(MsgTimeout), Failure(MsgTimeout), Failure(MsgTimeout)>>,
          <<Failure(MsgInvalidKey)>>,
          <<Failure(MsgRateLimit), Failure(MsgInvalidKey)>>}

\* call_deepseek_llm(messages, json_mode) with the default max_retries,
\* against a provider that follows `script`.
call_deepseek_llm(script) == RunClient(ClientEnter(DefaultMaxRetries), script)

\* The scripts the call consumes entirely.
Scripts ==
    {sc \in ProviderScripts :
        LET f == call_deepseek_llm(sc) IN f.status # "running" /\ f.calls = Len(sc)}

\* ------------------------------------------------------------------ state
VARIABLES
    plans,       \* projects table: plans[id] is the plan_json column of project id
    docs,        \* project_documents table: a set of rows
    nextDoc,     \* next id of the project_documents table
    files,       \* ids of the files the file-search service holds
    nextFile,    \* next file id the file-search service hands out
    configured,  \* gemini_service.GEMINI_CONFIGURED
    req,         \* the requests in flight: handler, position, locals
    last,        \* the request answered most recently, with its response
    call,        \* a call_deepseek_llm invocation on its own: its frame
    provider,    \* the outcomes the provider gave that invocation, in order
    assembly,    \* a get_rag_context / get_gemini_rag_response call on its own
    validation   \* a ProjectPlan(**data) evaluation on its own

vars ==
    <<plans, docs, nextDoc, files, nextFile, configured, req, last, call, provider,
      assembly, validation>>
tables == <<plans, docs, nextDoc>>
gemini == <<files, nextFile, configured>>

Reqs == 1..NumReqs
\* Project ids a request can name: every id that can exist, and one that never does.
ProjectIds == 1..(MaxProjects + 1)

\* select(models.Project).filter(id == pid) ... first() is not None
ProjectExists(pid) == pid \in 1..Len(plans)

\* Python truthiness of a plan_json column value (None and '' are falsy).
Truthy(x) == ~(x.t = "None" \/ (x.t = "str" /\ x.v = <<>>))

\* The handlers' "plan_json might be None" fallback.
LoadPlan(plan_json) ==
    IF Truthy(plan_json) THEN JsonLoads(plan_json).value ELSE DefaultPlan

\* A request slot: which handler runs in it, where it stands, its locals.
Idle == [op |-> "none", pc |-> "idle", pid |-> 0, current |-> PyNone, gid |-> 0,
         llm |-> 0, fs |-> 0]

\* An answered request: the handler, its id parameter, the response (status,
\* leading text of the detail or message, body), the exception the handler
\* caught (type and leading text), the plan it had loaded, the plan_json its
\* commit replaced, and the provider and file-search calls it made.
Answer(op, pid, status, detail) ==
    [op |-> op, pid |-> pid, status |-> status, detail |-> detail, body |-> PyNone,
     exc |-> "none", error |-> "none", current |-> PyNone, replaced |-> PyNone,
     llm |-> 0, fs |-> 0]

NotFound(op, pid) == Answer(op, pid, 404, "not found")

NoAnswer == Answer("none", 0, 0, "none")

\* A handler step runs once the response produced by the previous step, if
\* any, has been sent.
Sent == last = NoAnswer

\* ------------------------------------------------- file-search service
\* Characters of a block besides the file name, the file id and the content.
BlockFixedLen == 83
\* get_rag_context's default max_context_length.
DefaultMaxContext == 50000

FileName == <<"f">>
TextDoc == <<"d", "o", "c">>
\* Length of a file id "files/<n>", n below 100.
GidLen(gid) == 6 + (IF gid < 10 THEN 1 ELSE 2)

\* A project_documents row. uploaded_at is the insertion instant.
DocRow(id, project_id, gid) ==
    [id |-> id, project_id |-> project_id, file_name |-> FileName,
     gemini_corpus_doc_id |-> gid, uploaded_at |-> id]

\* What genai.get_file(gid) and the file's text_content() give.
FileMissing == [raises |-> TRUE, found |-> FALSE, state |-> "none", readable |-> FALSE, content |-> <<>>]
FileActive(content) ==
    [raises |-> FALSE, found |-> TRUE, state |-> "ACTIVE", readable |-> TRUE, content |-> content]

\* The service as the handlers see it: a file that was uploaded and not
\* deleted is processed (ACTIVE) and has text; any other id raises.
GeminiLookup == [gid \in 1..(nextFile - 1) |-> IF gid \in files THEN FileActive(TextDoc) ELSE FileMissing]

\* len(doc_context) of the block formatted for a row and its content.
BlockLen(block) ==
    BlockFixedLen + Len(block.doc.file_name) + GidLen(block.doc.gemini_corpus_doc_id)
    + Len(block.content)

\* Rows of a project ordered by uploaded_at ascending.
RECURSIVE OrderByUploadedAt(_)
OrderByUploadedAt(rows) ==
    IF rows = {} THEN <<>>
    ELSE LET first == CHOOSE d \in rows : \A e \in rows : d.uploaded_at <= e.uploaded_at
         IN  <<first>> \o OrderByUploadedAt(rows \ {first})

\* A variant of the loop that goes on to the next row, instead of stopping,
\* when a block would exceed the budget.
RECURSIVE RagLoopSkipOversize(_, _, _, _)
RagLoopSkipOversize(remaining, lookup, max_context_length, acc) ==
    IF remaining = <<>> THEN acc
    ELSE LET doc   == Head(remaining)
             file  == lookup[doc.gemini_corpus_doc_id]
             block == [doc |-> doc, content |-> file.content]
         IN  IF file.raises \/ ~file.found \/ file.state # "ACTIVE"
             THEN RagLoopSkipOversize(Tail(remaining), lookup, max_context_length,
                          [acc EXCEPT !.fs = @ + 1])
             ELSE IF ~file.readable \/ file.content = <<>>
             THEN RagLoopSkipOversize(Tail(remaining), lookup, max_context_length,
                          [acc EXCEPT !.fs = @ + 2])
             ELSE IF acc.total + BlockLen(block) > max_context_length
             THEN RagLoopSkipOversize(Tail(remaining), lookup, max_context_length,
                                      [acc EXCEPT !.fs = @ + 2])
             ELSE RagLoopSkipOversize(Tail(remaining), lookup, max_context_length,
                          [parts |-> Append(acc.parts, block),
                           total |-> acc.total + BlockLen(block),
                           fs    |-> acc.fs + 2,
                           raised |-> acc.raised])

\* A variant of the loop that stops at the first file that raises, is
\* missing or is not ACTIVE.
RECURSIVE RagLoopStopOnFailure(_, _, _, _)
RagLoopStopOnFailure(remaining, lookup, max_context_length, acc) ==
    IF remaining = <<>> THEN acc
    ELSE LET doc   == Head(remaining)
             file  == lookup[doc.gemini_corpus_doc_id]
             block == [doc |-> doc, content |-> file.content]
         IN  IF file.raises \/ ~file.found \/ file.state # "ACTIVE"
             THEN [acc EXCEPT !.fs = @ + 1]
             ELSE IF ~file.readable \/ file.content = <<>>
             THEN RagLoopStopOnFailure(Tail(remaining), lookup, max_context_length,
                          [acc EXCEPT !.fs = @ + 2])
             ELSE IF acc.total + BlockLen(block) > max_context_length
             THEN [acc EXCEPT !.fs = @ + 2]
             ELSE RagLoopStopOnFailure(Tail(remaining), lookup, max_context_length,
                          [parts |-> Append(acc.parts, block),
                           total |-> acc.total + BlockLen(block),
                           fs    |-> acc.fs + 2,
                           raised |-> acc.raised])

\* The for loop of get_rag_context over the remaining rows: `continue` on a
\* file that raises, is missing, is not ACTIVE or has no content; `break` on
\* the first block that would exceed the budget. fs counts the file-search
\* calls made (get_file, text_content).
RECURSIVE RagLoop(_, _, _, _)
RagLoop(remaining, lookup, max_context_length, acc) ==
    IF remaining = <<>> THEN acc
    ELSE LET doc   == Head(remaining)
             file  == lookup[doc.gemini_corpus_doc_id]
             block == [doc |-> doc, content |-> file.content]
         IN  IF file.raises \/ ~file.found \/ file.state # "ACTIVE"
             THEN RagLoop(Tail(remaining), lookup, max_context_length,
                          [acc EXCEPT !.fs = @ + 1])
             ELSE IF ~file.readable \/ file.content = <<>>
             THEN RagLoop(Tail(remaining), lookup, max_context_length,
                          [acc EXCEPT !.fs = @ + 2])
             ELSE IF acc.total + BlockLen(block) > max_context_length
             THEN [acc EXCEPT !.fs = @ + 2]
             ELSE RagLoop(Tail(remaining), lookup, max_context_length,
                          [parts |-> Append(acc.parts, block),
                           total |-> acc.total + BlockLen(block),
                           fs    |-> acc.fs + 2,
                           raised |-> acc.raised])

\* A variant of get_rag_context without the outer try/except: a failing
\* document query reaches the caller.
get_rag_context_propagating(rows, lookup, max_context_length, query_ok) ==
    IF ~query_ok
    THEN [parts |-> <<>>, total |-> 0, fs |-> 0, raised |-> TRUE]
    ELSE RagLoop(OrderByUploadedAt(rows), lookup, max_context_length,
                 [parts |-> <<>>, total |-> 0, fs |-> 0, raised |-> FALSE])

\* get_rag_context: the blocks joined into the context ("" is no blocks).
\* A failing document query, like any other error, is caught by the outer
\* except and gives "": the function itself never raises.
get_rag_context(rows, lookup, max_context_length, query_ok) ==
    IF ~query_ok
    THEN [parts |-> <<>>, total |-> 0, fs |-> 0, raised |-> FALSE]
    ELSE RagLoop(OrderByUploadedAt(rows), lookup, max_context_length,
                 [parts |-> <<>>, total |-> 0, fs |-> 0, raised |-> FALSE])

\* len("\n\n".join(context_parts))
ContextLen(parts) ==
    IF parts = <<>> THEN 0
    ELSE LET RECURSIVE Sum(_)
             Sum(i) == IF i = 0 THEN 0 ELSE BlockLen(parts[i]) + Sum(i - 1)
         IN  Sum(Len(parts)) + 2 * (Len(parts) - 1)

\* What the generation model can answer.
GenOutcomes == {Reply(PyStr(TextReport)), Failure(MsgTimeout)}

\* A variant of get_gemini_rag_response that gives up with a 500 when the
\* context is empty instead of substituting the placeholder.
get_gemini_rag_response_needs_context(rows, lookup, model_ready, query_ok, gen) ==
    IF ~model_ready
    THEN [ok |-> FALSE, status |-> 503, text |-> PyNone, fs |-> 0, llm |-> 0,
          placeholder |-> FALSE]
    ELSE LET ctx == get_rag_context(rows, lookup, DefaultMaxContext, query_ok)
         IN  IF ctx.raised \/ ctx.parts = <<>>
             THEN [ok |-> FALSE, status |-> 500, text |-> PyNone, fs |-> ctx.fs,
                   llm |-> 0, placeholder |-> FALSE]
             ELSE [ok |-> gen.ok, status |-> IF gen.ok THEN 200 ELSE 500,
                   text |-> gen.content, fs |-> ctx.fs, llm |-> 1,
                   placeholder |-> FALSE]

\* get_gemini_rag_response, reached through rag_recommendation / rag_update:
\* 503 when the model is not available, else the context is assembled and
\* the model is called once; any error there becomes a 500.
get_gemini_rag_response(rows, lookup, model_ready, query_ok, gen) ==
    IF ~model_ready
    THEN [ok |-> FALSE, status |-> 503, text |-> PyNone, fs |-> 0, llm |-> 0,
          placeholder |-> FALSE]
    ELSE LET ctx == get_rag_context(rows, lookup, DefaultMaxContext, query_ok)
         IN  IF ctx.raised
             THEN [ok |-> FALSE, status |-> 500, text |-> PyNone, fs |-> ctx.fs,
                   llm |-> 0, placeholder |-> FALSE]
             ELSE [ok |-> gen.ok, status |-> IF gen.ok THEN 200 ELSE 500,
                   text |-> gen.content, fs |-> ctx.fs, llm |-> 1,
                   placeholder |-> (ctx.parts = <<>>)]

ProjectDocs(pid) == {d \in docs : d.project_id = pid}

\* ------------------------------------------------- POST /project/create
create_project(r) ==
    /\ Sent
    /\ req[r].pc = "idle"
    /\ Len(plans) < MaxProjects
    /\ plans' = Append(plans, JsonDumps(DefaultPlan))
    /\ last' = [Answer("create", Len(plans) + 1, 201, "created") EXCEPT !.body = DefaultPlan]
    /\ UNCHANGED <<docs, nextDoc, gemini, req, call, provider, assembly, validation>>

\* ------------------------------------------------- GET /project/{id}
\* The response model validates the decoded plan (schemas.Project.plan_json).
GetProjectResponse(pid) ==
    IF ~ProjectExists(pid)
    THEN NotFound("get", pid)
    ELSE LET validated == ProjectPlan(LoadPlan(plans[pid]))
         IN  IF validated.ok
             THEN [Answer("get", pid, 200, "ok") EXCEPT !.body = validated.plan]
             ELSE [Answer("get", pid, 500, "Internal Server Error") EXCEPT
                      !.exc = "ValidationError"]

get_project(r, pid) ==
    /\ Sent
    /\ req[r].pc = "idle"
    /\ last' = GetProjectResponse(pid)
    /\ UNCHANGED <<tables, gemini, req, call, provider, assembly, validation>>

\* ------------------------------------------------- POST /project/update
\* First part: the SELECT, the 404 check and the decoding of the current plan.
update_project_state(r, pid) ==
    /\ Sent
    /\ req[r].pc = "idle"
    /\ IF ~ProjectExists(pid)
       THEN /\ last' = NotFound("update", pid)
            /\ req' = req
       ELSE /\ last' = last
            /\ req' = [req EXCEPT ![r] =
                          [Idle EXCEPT !.op = "update", !.pc = "loaded", !.pid = pid,
                                       !.current = LoadPlan(plans[pid])]]
    /\ UNCHANGED <<tables, gemini, call, provider, assembly, validation>>

\* A variant that merges the keys of the stored plan into the new one.
UpdateMerged(old_plan_json, new_plan) ==
    LET old == LoadPlan(old_plan_json)
    IN  IF IsDict(old) /\ IsDict(new_plan)
        THEN JsonDumps(PyDict([k \in DOMAIN old.v \cup DOMAIN new_plan.v |->
                                  IF k \in DOMAIN new_plan.v THEN new_plan.v[k] ELSE old.v[k]]))
        ELSE JsonDumps(new_plan)

\* What the commit stores in plan_json: json.dumps(new_plan).
UpdateStored(old_plan_json, new_plan) == JsonDumps(new_plan)

\* A variant with a version check: the write goes through only when plan_json
\* still holds the plan the handler loaded.
db_commit_versioned(stored_plan_json, loaded_plan, accepted) ==
    accepted /\ LoadPlan(stored_plan_json) = loaded_plan

\* db.add(db_project); await db.commit(): the row is written without any
\* lock or version column, so the write goes through whenever the database
\* accepts it, whatever plan_json holds by then.
db_commit(stored_plan_json, loaded_plan, accepted) == accepted

\* Second part: the try block. state_updater_llm runs against the provider,
\* and only its validated result is assigned to plan_json and committed; any
\* exception, a failing commit included, becomes a 500 with its message.
update_project_state_commit(r, script, commit_ok) ==
    /\ Sent
    /\ req[r].op = "update" /\ req[r].pc = "loaded"
    /\ LET frame  == call_deepseek_llm(script)
           out    == state_updater_llm(req[r].current, frame)
           pid    == req[r].pid
           written == db_commit(plans[pid], req[r].current, commit_ok)
           stored == out.ok /\ written
       IN  /\ plans' = IF stored
                       THEN [plans EXCEPT ![pid] = UpdateStored(@, out.value)]
                       ELSE plans
           /\ last' = [Answer("update", pid, IF stored THEN 200 ELSE 500,
                              IF stored THEN "ok" ELSE "LLM State Update failed")
                          EXCEPT !.body = IF stored THEN out.value ELSE PyNone,
                                 !.exc = IF ~out.ok THEN out.type
                                         ELSE IF ~written THEN "SQLAlchemyError" ELSE "none",
                                 !.error = IF ~out.ok THEN out.msg
                                           ELSE IF ~written THEN "commit failed" ELSE "none",
                                 !.current = req[r].current,
                                 !.replaced = IF stored THEN plans[pid] ELSE PyNone,
                                 !.llm = frame.calls]
    /\ req' = [req EXCEPT ![r] = Idle]
    /\ UNCHANGED <<docs, nextDoc, gemini, call, provider, assembly, validation>>

\* ------------------------------------------------- POST /project/recommend
\* A variant of the handler that runs the pipeline a second time when the
\* first run failed, the provider answering as before.
RecommendResponseRetrying(pid, script) ==
    IF ~ProjectExists(pid)
    THEN NotFound("recommend", pid)
    ELSE LET frame == call_deepseek_llm(script)
             out   == recommender_llm(LoadPlan(plans[pid]), frame)
         IN  [Answer("recommend", pid, IF out.ok THEN 200 ELSE 500,
                     IF out.ok THEN "ok" ELSE "LLM Recommendation failed")
                 EXCEPT !.body = out.value, !.exc = out.type, !.error = out.msg,
                        !.current = LoadPlan(plans[pid]),
                        !.llm = IF out.ok THEN frame.calls ELSE 2 * frame.calls]

RecommendResponse(pid, script) ==
    IF ~ProjectExists(pid)
    THEN NotFound("recommend", pid)
    ELSE LET frame == call_deepseek_llm(script)
             out   == recommender_llm(LoadPlan(plans[pid]), frame)
         IN  [Answer("recommend", pid, IF out.ok THEN 200 ELSE 500,
                     IF out.ok THEN "ok" ELSE "LLM Recommendation failed")
                 EXCEPT !.body = out.value, !.exc = out.type, !.error = out.msg,
                        !.current = LoadPlan(plans[pid]), !.llm = frame.calls]

\* A variant that keeps the recommendation it produced in plan_json.
recommend_and_store(r, pid, script) ==
    /\ Sent
    /\ req[r].pc = "idle"
    /\ last' = RecommendResponse(pid, script)
    /\ plans' = IF ProjectExists(pid) /\ RecommendResponse(pid, script).status = 200
                THEN [plans EXCEPT ![pid] = JsonDumps(RecommendResponse(pid, script).body)]
                ELSE plans
    /\ UNCHANGED <<docs, nextDoc, gemini, req, call, provider, assembly, validation>>

\* No database write: the session is only read.
recommend_project_state(r, pid, script) ==
    /\ Sent
    /\ req[r].pc = "idle"
    /\ last' = RecommendResponse(pid, script)
    /\ UNCHANGED <<tables, gemini, req, call, provider, assembly, validation>>

\* ------------------------------------------- POST /project/recommend_with_docs
\* The request's plan_json is a str that only enters the prompt. The handler's
\* own document query only feeds the count and the ids it reports. A failing
\* rag_recommendation is answered with the "Service Unavailable" fallback.
\* A variant that lets a failing rag_recommendation end the request with the
\* HTTPException it raised.
RecommendWithDocsPropagating(pid, rag_query_ok, gen) ==
    IF ~ProjectExists(pid)
    THEN NotFound("recommend_with_docs", pid)
    ELSE LET rag == get_gemini_rag_response(ProjectDocs(pid), GeminiLookup,
                                            configured, rag_query_ok, gen)
         IN  [Answer("recommend_with_docs", pid, rag.status,
                     IF rag.ok THEN "RAG-Enhanced Project Recommendation"
                     ELSE IF rag.status = 503 THEN "RAG service not available"
                     ELSE "Error generating RAG response")
                 EXCEPT !.body = rag.text,
                        !.exc = IF rag.ok THEN "none" ELSE "HTTPException",
                        !.error = IF rag.ok THEN "none"
                                  ELSE IF rag.status = 503 THEN "RAG service not available"
                                  ELSE "Error generating RAG response",
                        !.llm = rag.llm, !.fs = rag.fs]

RecommendWithDocsResponse(pid, rag_query_ok, gen) ==
    IF ~ProjectExists(pid)
    THEN NotFound("recommend_with_docs", pid)
    ELSE LET rag == get_gemini_rag_response(ProjectDocs(pid), GeminiLookup,
                                            configured, rag_query_ok, gen)
         IN  [Answer("recommend_with_docs", pid, 200,
                     IF rag.ok THEN "RAG-Enhanced Project Recommendation"
                     ELSE "Recommendation (Service Unavailable)")
                 EXCEPT !.body = rag.text,
                        !.exc = IF rag.ok THEN "none" ELSE "HTTPException",
                        !.error = IF rag.ok THEN "none"
                                  ELSE IF rag.status = 503 THEN "RAG service not available"
                                  ELSE "Error generating RAG response",
                        !.llm = rag.llm, !.fs = rag.fs]

recommend_with_docs(r, pid, rag_query_ok, gen) ==
    /\ Sent
    /\ req[r].pc = "idle"
    /\ last' = RecommendWithDocsResponse(pid, rag_query_ok, gen)
    /\ UNCHANGED <<tables, gemini, req, call, provider, assembly, validation>>

\* ------------------------------------------- POST /project/update_with_docs
\* Bodies a client can send as updated_plan_json (always a str).
UpdateArgs ==
    {JsonDumps(x) : x \in {PlanA, PlanTasksOnly, PlanBadTasks, PyList(<<PyStr(<<"t">>)>>)}}
    \cup {PyStr(TextNotJson)}

\* First part: 404 check, document query, json.loads (400 on failure), the
\* rag_update call (its failure is tolerated), then ProjectPlan(**data), whose
\* failure ends the request with a 500.
update_project_with_docs(r, pid, arg, rag_query_ok, gen) ==
    /\ Sent
    /\ req[r].pc = "idle"
    /\ LET data == JsonLoads(arg).value
           rag  == get_gemini_rag_response(ProjectDocs(pid), GeminiLookup,
                                           configured, rag_query_ok, gen)
           validated == ProjectPlan(data)
       IN  IF ~ProjectExists(pid)
           THEN /\ last' = NotFound("update_with_docs", pid)
                /\ req' = req
           ELSE IF ~JsonLoads(arg).ok
           THEN /\ last' = [Answer("update_with_docs", pid, 400,
                                   "Invalid JSON in updated_plan_json")
                               EXCEPT !.exc = "JSONDecodeError"]
                /\ req' = req
           ELSE IF ~validated.ok
           THEN /\ last' = [Answer("update_with_docs", pid, 500,
                                   "Error processing updated plan or updating database")
                               EXCEPT !.exc = validated.exc, !.llm = rag.llm, !.fs = rag.fs]
                /\ req' = req
           ELSE /\ last' = last
                /\ req' = [req EXCEPT ![r] =
                              [Idle EXCEPT !.op = "update_with_docs", !.pc = "validated",
                                           !.pid = pid, !.current = data,
                                           !.llm = rag.llm, !.fs = rag.fs]]
    /\ UNCHANGED <<tables, gemini, call, provider, assembly, validation>>

\* What the commit stores in plan_json: json.dumps(updated_plan_data, indent=2),
\* the decoded request body, not the validated model.
UpdateWithDocsStored(updated_plan_data, validated_plan) ==
    JsonDumpsIndent(updated_plan_data, 2)

\* Second part: the project is selected again, plan_json assigned and
\* committed; the response carries the validated model.
update_project_with_docs_commit(r, commit_ok) ==
    /\ Sent
    /\ req[r].op = "update_with_docs" /\ req[r].pc = "validated"
    /\ LET pid == req[r].pid
           validated == ProjectPlan(req[r].current).plan
       IN  /\ plans' = IF commit_ok
                       THEN [plans EXCEPT ![pid] =
                                UpdateWithDocsStored(req[r].current, validated)]
                       ELSE plans
           /\ last' = [Answer("update_with_docs", pid, IF commit_ok THEN 200 ELSE 500,
                              IF commit_ok THEN "ok"
                              ELSE "Error processing updated plan or updating database")
                          EXCEPT !.body = IF commit_ok THEN validated ELSE PyNone,
                                 !.exc = IF commit_ok THEN "none" ELSE "SQLAlchemyError",
                                 !.current = req[r].current,
                                 !.replaced = IF commit_ok THEN plans[pid] ELSE PyNone,
                                 !.llm = req[r].llm, !.fs = req[r].fs]
    /\ req' = [req EXCEPT ![r] = Idle]
    /\ UNCHANGED <<docs, nextDoc, gemini, call, provider, assembly, validation>>

\* ------------------------------------------- POST /project/{id}/upload
\* Ways upload_file_to_gemini can end once the service is configured.
UploadOutcomes == {"ok", "blocked", "stopped", "timeout", "error"}

UploadFailureStatus(outcome) ==
    CASE outcome = "blocked" -> 400
      [] outcome = "stopped" -> 500
      [] outcome = "timeout" -> 408
      [] OTHER               -> 500

\* A variant that uploads before it looks the project up.
UploadSentUnchecked(pid, read_ok) == read_ok /\ configured

\* Whether the handler gets as far as genai.upload_file: the project exists,
\* the file could be read and the service is configured.
UploadSent(pid, read_ok) == ProjectExists(pid) /\ read_ok /\ configured

\* A variant that goes on to store the row whenever the file reached the
\* service, a processing timeout included.
upload_document_any_outcome(r, pid, read_ok, outcome) ==
    /\ Sent
    /\ req[r].pc = "idle"
    /\ UploadSent(pid, read_ok) => nextFile <= MaxUploads
    /\ LET sent   == UploadSent(pid, read_ok)
           kept   == sent /\ outcome \in {"ok", "timeout"}
           failed == [Answer("upload", pid,
                             IF ~ProjectExists(pid) THEN 404
                             ELSE IF ~read_ok THEN 400
                             ELSE IF ~configured THEN 503
                             ELSE UploadFailureStatus(outcome),
                             IF ~ProjectExists(pid) THEN "not found"
                             ELSE IF ~read_ok THEN "Error reading file content"
                             ELSE IF ~configured THEN "Gemini API not configured"
                             ELSE "upload failed")
                         EXCEPT !.exc = IF ProjectExists(pid) THEN "HTTPException" ELSE "none",
                                !.fs = IF sent THEN 1 ELSE 0]
       IN  /\ files' = IF kept THEN files \cup {nextFile} ELSE files
           /\ nextFile' = IF kept THEN nextFile + 1 ELSE nextFile
           /\ IF kept
              THEN /\ last' = last
                   /\ req' = [req EXCEPT ![r] =
                                 [Idle EXCEPT !.op = "upload", !.pc = "uploaded", !.pid = pid,
                                              !.gid = nextFile, !.fs = 1]]
              ELSE /\ last' = failed
                   /\ req' = req
    /\ UNCHANGED <<tables, configured, call, provider, assembly, validation>>

\* First part: 404 check, file.read() (400 on failure), upload to the
\* file-search service. A processing timeout leaves the uploaded file behind.
upload_document(r, pid, read_ok, outcome) ==
    /\ Sent
    /\ req[r].pc = "idle"
    /\ UploadSent(pid, read_ok) => nextFile <= MaxUploads
    /\ LET sent   == UploadSent(pid, read_ok)
           kept   == sent /\ outcome \in {"ok", "timeout"}
           failed == [Answer("upload", pid,
                             IF ~ProjectExists(pid) THEN 404
                             ELSE IF ~read_ok THEN 400
                             ELSE IF ~configured THEN 503
                             ELSE UploadFailureStatus(outcome),
                             IF ~ProjectExists(pid) THEN "not found"
                             ELSE IF ~read_ok THEN "Error reading file content"
                             ELSE IF ~configured THEN "Gemini API not configured"
                             ELSE "upload failed")
                         EXCEPT !.exc = IF ProjectExists(pid) THEN "HTTPException" ELSE "none",
                                !.fs = IF sent THEN 1 ELSE 0]
       IN  /\ files' = IF kept THEN files \cup {nextFile} ELSE files
           /\ nextFile' = IF kept THEN nextFile + 1 ELSE nextFile
           /\ IF sent /\ outcome = "ok"
              THEN /\ last' = last
                   /\ req' = [req EXCEPT ![r] =
                                 [Idle EXCEPT !.op = "upload", !.pc = "uploaded", !.pid = pid,
                                              !.gid = nextFile, !.fs = 1]]
              ELSE /\ last' = failed
                   /\ req' = req
    /\ UNCHANGED <<tables, configured, call, provider, assembly, validation>>

\* delete_file_from_gemini(gid): genai.delete_file is called only when the
\* service is configured, and the function returns False instead of raising.
GeminiDeleteCalled == configured
GeminiDeleteRemoves(gid, ext_ok) == configured /\ ext_ok /\ gid \in files

\* A variant that fails without the clean-up delete.
upload_document_store_no_cleanup(r, commit_ok, cleanup_ok) ==
    /\ Sent
    /\ req[r].op = "upload" /\ req[r].pc = "uploaded"
    /\ LET gid == req[r].gid
           pid == req[r].pid
       IN  IF commit_ok
           THEN /\ docs' = docs \cup {DocRow(nextDoc, pid, gid)}
                /\ nextDoc' = nextDoc + 1
                /\ files' = files
                /\ last' = [Answer("upload", pid, 201, "File uploaded") EXCEPT
                               !.body = PyInt(nextDoc), !.fs = req[r].fs]
           ELSE /\ UNCHANGED <<docs, nextDoc>>
                /\ files' = files
                /\ last' = [Answer("upload", pid, 500, "Error storing file record") EXCEPT
                               !.exc = "SQLAlchemyError",
                               !.fs = req[r].fs]
    /\ req' = [req EXCEPT ![r] = Idle]
    /\ UNCHANGED <<plans, nextFile, configured, call, provider, assembly, validation>>

\* Second part: the row is added and committed; when that fails, one
\* clean-up delete of the uploaded file is attempted and the request fails.
upload_document_store(r, commit_ok, cleanup_ok) ==
    /\ Sent
    /\ req[r].op = "upload" /\ req[r].pc = "uploaded"
    /\ LET gid == req[r].gid
           pid == req[r].pid
       IN  IF commit_ok
           THEN /\ docs' = docs \cup {DocRow(nextDoc, pid, gid)}
                /\ nextDoc' = nextDoc + 1
                /\ files' = files
                /\ last' = [Answer("upload", pid, 201, "File uploaded") EXCEPT
                               !.body = PyInt(nextDoc), !.fs = req[r].fs]
           ELSE /\ UNCHANGED <<docs, nextDoc>>
                /\ files' = IF GeminiDeleteRemoves(gid, cleanup_ok) THEN files \ {gid} ELSE files
                /\ last' = [Answer("upload", pid, 500, "Error storing file record") EXCEPT
                               !.exc = "SQLAlchemyError",
                               !.fs = req[r].fs + (IF GeminiDeleteCalled THEN 1 ELSE 0)]
    /\ req' = [req EXCEPT ![r] = Idle]
    /\ UNCHANGED <<plans, nextFile, configured, call, provider, assembly, validation>>

\* ------------------------------------------- GET /project/{id}/documents
RECURSIVE Reverse(_)
Reverse(seq) == IF seq = <<>> THEN <<>> ELSE Append(Reverse(Tail(seq)), Head(seq))

\* 404 check, then the project's rows, most recent first (their ids here);
\* a failing query is a 500.
get_project_documents(r, pid, query_ok) ==
    /\ Sent
    /\ req[r].pc = "idle"
    /\ last' = IF ~ProjectExists(pid) THEN NotFound("documents", pid)
               ELSE IF ~query_ok
               THEN [Answer("documents", pid, 500, "Error retrieving project documents")
                        EXCEPT !.exc = "SQLAlchemyError"]
               ELSE LET rows == Reverse(OrderByUploadedAt(ProjectDocs(pid)))
                    IN  [Answer("documents", pid, 200, "ok") EXCEPT
                            !.body = PyList([i \in 1..Len(rows) |-> PyInt(rows[i].id)])]
    /\ UNCHANGED <<tables, gemini, req, call, provider, assembly, validation>>

\* ------------------------------------------- DELETE /document/{id}
\* Document ids a request can name: every id that can exist, and one more.
DocIds == 1..(MaxUploads + 1)
DocById(id) == {d \in docs : d.id = id}

\* First part: the row is looked up (404 when missing), then the file is
\* deleted from the file-search service; the outcome is only logged.
delete_document(r, document_id, ext_ok) ==
    /\ Sent
    /\ req[r].pc = "idle"
    /\ IF DocById(document_id) = {}
       THEN /\ files' = files
            /\ last' = NotFound("delete_document", document_id)
            /\ req' = req
       ELSE LET gid == (CHOOSE d \in DocById(document_id) : TRUE).gemini_corpus_doc_id
            IN  /\ files' = IF GeminiDeleteRemoves(gid, ext_ok) THEN files \ {gid} ELSE files
                /\ last' = last
                /\ req' = [req EXCEPT ![r] =
                              [Idle EXCEPT !.op = "delete_document", !.pc = "deleting",
                                           !.pid = document_id, !.gid = gid,
                                           !.fs = IF GeminiDeleteCalled THEN 1 ELSE 0]]
    /\ UNCHANGED <<tables, nextFile, configured, call, provider, assembly, validation>>

\* A variant that keeps the row, and fails, when the file is still in the
\* file-search service.
delete_document_commit_strict(r, commit_ok) ==
    /\ Sent
    /\ req[r].op = "delete_document" /\ req[r].pc = "deleting"
    /\ LET removed == commit_ok /\ DocById(req[r].pid) # {} /\ req[r].gid \notin files
       IN  /\ docs' = IF removed THEN docs \ DocById(req[r].pid) ELSE docs
           /\ last' = [Answer("delete_document", req[r].pid,
                              IF removed THEN 200 ELSE 500,
                              IF removed THEN "deleted successfully"
                              ELSE "Error deleting document record from database")
                          EXCEPT !.exc = IF removed THEN "none" ELSE "SQLAlchemyError",
                                 !.fs = req[r].fs]
    /\ req' = [req EXCEPT ![r] = Idle]
    /\ UNCHANGED <<plans, nextDoc, gemini, call, provider, assembly, validation>>

\* Second part: db.delete(document) and the commit. A row that is already
\* gone, like any other database error, ends the request with a 500.
delete_document_commit(r, commit_ok) ==
    /\ Sent
    /\ req[r].op = "delete_document" /\ req[r].pc = "deleting"
    /\ LET removed == commit_ok /\ DocById(req[r].pid) # {}
       IN  /\ docs' = IF removed THEN docs \ DocById(req[r].pid) ELSE docs
           /\ last' = [Answer("delete_document", req[r].pid,
                              IF removed THEN 200 ELSE 500,
                              IF removed THEN "deleted successfully"
                              ELSE "Error deleting document record from database")
                          EXCEPT !.exc = IF removed THEN "none" ELSE "SQLAlchemyError",
                                 !.fs = req[r].fs]
    /\ req' = [req EXCEPT ![r] = Idle]
    /\ UNCHANGED <<plans, nextDoc, gemini, call, provider, assembly, validation>>

\* ------------------------------------------- the service
\* The response of the request just answered goes out.
Respond ==
    /\ last # NoAnswer
    /\ last' = NoAnswer
    /\ UNCHANGED <<tables, gemini, req, call, provider, assembly, validation>>

NoCall == [ClientEnter(0) EXCEPT !.status = "unused"]

\* No get_rag_context call and no ProjectPlan evaluation under way.
NoAssembly == [pc |-> "none"]
NoValidation == [pc |-> "none"]

Init ==
    /\ plans = <<>>
    /\ docs = {}
    /\ nextDoc = 1
    /\ files = {}
    /\ nextFile = 1
    /\ configured \in BOOLEAN
    /\ req = [r \in Reqs |-> Idle]
    /\ last = NoAnswer
    /\ call = NoCall
    /\ provider = <<>>
    /\ assembly = NoAssembly
    /\ validation = NoValidation

Next ==
    \/ Respond
    \/ \E r \in Reqs :
        \/ create_project(r)
        \/ \E pid \in ProjectIds : get_project(r, pid)
        \/ \E pid \in ProjectIds : update_project_state(r, pid)
        \/ \E script \in Scripts, commit_ok \in BOOLEAN :
               update_project_state_commit(r, script, commit_ok)
        \/ \E pid \in ProjectIds, script \in Scripts :
               recommend_project_state(r, pid, script)
        \/ \E pid \in ProjectIds, rag_query_ok \in BOOLEAN, gen \in GenOutcomes :
               recommend_with_docs(r, pid, rag_query_ok, gen)
        \/ \E pid \in ProjectIds, arg \in UpdateArgs, rag_query_ok \in BOOLEAN,
              gen \in GenOutcomes :
               update_project_with_docs(r, pid, arg, rag_query_ok, gen)
        \/ \E commit_ok \in BOOLEAN : update_project_with_docs_commit(r, commit_ok)
        \/ \E pid \in ProjectIds, read_ok \in BOOLEAN, outcome \in UploadOutcomes :
               upload_document(r, pid, read_ok, outcome)
        \/ \E commit_ok \in BOOLEAN, cleanup_ok \in BOOLEAN :
               upload_document_store(r, commit_ok, cleanup_ok)
        \/ \E pid \in ProjectIds, query_ok \in BOOLEAN :
               get_project_documents(r, pid, query_ok)
        \/ \E document_id \in DocIds, ext_ok \in BOOLEAN :
               delete_document(r, document_id, ext_ok)
        \/ \E commit_ok \in BOOLEAN : delete_document_commit(r, commit_ok)

Spec == Init /\ [][Next]_vars

\* ------------------------------------------- the LLM client on its own
\* call_deepseek_llm run one loop iteration at a time, for every max_retries
\* from -1 up and against a provider free to answer each call with a reply
\* or with any of the error messages.
MaxRetriesArgs == (0 - 1)..MaxRetriesArg

ProviderOutcomes ==
    {Failure(msg) : msg \in ErrorMessages}
    \cup {Reply(c) : c \in {PyStr(TextReport), JsonDumps(PlanA), PyStr(TextBlank)}}

\* The function is entered with some max_retries.
ClientCall(max_retries) ==
    /\ call.status = "unused"
    /\ call' = ClientEnter(max_retries)
    /\ provider' = <<>>
    /\ UNCHANGED <<tables, gemini, req, last, assembly, validation>>

\* One pass through the loop body: client.chat.completions.create is called
\* and answers; the loop returns, raises, or sleeps and goes round again.
ClientAttempt(outcome) ==
    /\ call.status = "running"
    /\ call' = ClientIter(call, outcome)
    /\ provider' = Append(provider, outcome)
    /\ UNCHANGED <<tables, gemini, req, last, assembly, validation>>

NextLLM ==
    \/ \E max_retries \in MaxRetriesArgs : ClientCall(max_retries)
    \/ \E outcome \in ProviderOutcomes : ClientAttempt(outcome)

SpecLLM == Init /\ [][NextLLM]_vars

\* --------------------------------------------- the schema on its own
\* schemas.ProjectPlan applied to plan data of every shape: each declared
\* field absent, well-typed or ill-typed, with and without extra keys, and
\* values that are no mapping at all.
TasksValues ==
    {PyList(<<>>), PyList(<<TaskA>>), PyList(<<TaskA, TaskB>>), PyStr(<<"t">>)}
RisksValues ==
    {PyList(<<>>), PyList(<<RiskA>>), PyList(<<RiskA, RiskA>>), PyList(<<TaskA>>)}
MilestonesValues == {PyList(<<>>), PyList(<<TaskB>>), PyList(<<PyInt(1)>>)}
ExtraValues == [owner |-> PyStr(<<"o">>), notes |-> PyInt(1)]

PlanData ==
    {PyDict([k \in keys \cup extras |->
                IF k = "tasks" THEN t
                ELSE IF k = "risks" THEN r
                ELSE IF k = "milestones" THEN m
                ELSE ExtraValues[k]]) :
        keys \in SUBSET PlanFields, extras \in SUBSET DOMAIN ExtraValues,
        t \in TasksValues, r \in RisksValues, m \in MilestonesValues}
    \cup NonObjects

\* schemas.ProjectPlan(**data) is called with some data.
ValidateEnter(data) ==
    /\ validation.pc = "none"
    /\ validation' = [pc |-> "entered", data |-> data]
    /\ UNCHANGED <<tables, gemini, req, last, call, provider, assembly>>

\* The model is built (or validation raises) and dumped.
Validate ==
    /\ validation.pc = "entered"
    /\ validation' = [pc |-> "validated", data |-> validation.data,
                      result |-> ProjectPlan(validation.data)]
    /\ UNCHANGED <<tables, gemini, req, last, call, provider, assembly>>

\* The dumped plan is validated once more.
Revalidate ==
    /\ validation.pc = "validated"
    /\ validation.result.ok
    /\ validation' = [pc |-> "revalidated", data |-> validation.data,
                      result |-> ProjectPlan(validation.result.plan),
                      first |-> validation.result]
    /\ UNCHANGED <<tables, gemini, req, last, call, provider, assembly>>

NextPlan ==
    \/ \E data \in PlanData : ValidateEnter(data)
    \/ Validate
    \/ Revalidate

SpecPlan == Init /\ [][NextPlan]_vars

\* ---------------------------------- the context assembler on its own
\* get_rag_context and get_gemini_rag_response for a project with 0..MaxDocs
\* documents, against a file-search service in each of its conditions, for
\* budgets around the sum of the blocks' lengths.
FileKinds ==
    {"active", "raises", "missing", "processing", "unreadable", "empty", "mixed",
     "shrinking", "faulty"}

TextShort == <<"d">>

FileOfKind(kind, gid) ==
    IF kind = "active" THEN FileActive(TextDoc)
    ELSE IF kind = "raises" THEN FileMissing
    ELSE IF kind = "missing" THEN [FileMissing EXCEPT !.raises = FALSE]
    ELSE IF kind = "processing" THEN [FileActive(TextDoc) EXCEPT !.state = "PROCESSING"]
    ELSE IF kind = "unreadable" THEN [FileActive(TextDoc) EXCEPT !.readable = FALSE]
    ELSE IF kind = "empty" THEN FileActive(<<>>)
    ELSE IF kind = "mixed"
    THEN (IF gid % 2 = 1 THEN FileActive(TextDoc) ELSE FileMissing)
    ELSE IF kind = "shrinking"
    THEN (IF gid = 1 THEN FileActive(TextDoc) ELSE FileActive(TextShort))
    ELSE CASE gid % 6 = 1 -> FileActive(TextDoc)
           [] gid % 6 = 2 -> FileMissing
           [] gid % 6 = 3 -> [FileMissing EXCEPT !.raises = FALSE]
           [] gid % 6 = 4 -> [FileActive(TextDoc) EXCEPT !.state = "PROCESSING"]
           [] gid % 6 = 5 -> [FileActive(TextDoc) EXCEPT !.readable = FALSE]
           [] OTHER       -> FileActive(<<>>)

LookupOfKind(kind) == [gid \in 1..MaxDocs |-> FileOfKind(kind, gid)]

\* The rows of project 1 when it has n documents.
Rows(n) == {DocRow(i, 1, i) : i \in 1..n}

\* Sum of len(doc_context) over the first n rows when every file has text.
RECURSIVE BlockSum(_)
BlockSum(n) ==
    IF n = 0 THEN 0
    ELSE BlockLen([doc |-> DocRow(n, 1, n), content |-> TextDoc]) + BlockSum(n - 1)

Budgets(n) ==
    {0, DefaultMaxContext}
    \cup (IF n = 0 THEN {}
          ELSE {BlockSum(n), BlockSum(n) - 1, BlockSum(1) - 1, BlockSum((n + 1) \div 2)})

\* get_rag_context is called.
AssemblyEnter(n, kind, max_context_length, query_ok) ==
    /\ assembly.pc = "none"
    /\ assembly' = [pc |-> "entered", n |-> n, kind |-> kind,
                    max_context_length |-> max_context_length,
                    query_ok |-> query_ok]
    /\ UNCHANGED <<tables, gemini, req, last, call, provider, validation>>

\* get_rag_context returns.
AssemblyContext ==
    /\ assembly.pc = "entered"
    /\ assembly' = [pc |-> "assembled", n |-> assembly.n, kind |-> assembly.kind,
                    max_context_length |-> assembly.max_context_length,
                    query_ok |-> assembly.query_ok,
                    context |-> get_rag_context(Rows(assembly.n),
                                                LookupOfKind(assembly.kind),
                                                assembly.max_context_length,
                                                assembly.query_ok)]
    /\ UNCHANGED <<tables, gemini, req, last, call, provider, validation>>

\* get_gemini_rag_response runs for the same project and service.
AssemblyRespond(model_ready, gen) ==
    /\ assembly.pc = "assembled"
    /\ assembly' = [pc |-> "responded", n |-> assembly.n, kind |-> assembly.kind,
                    max_context_length |-> assembly.max_context_length,
                    query_ok |-> assembly.query_ok,
                    context |-> assembly.context,
                    model_ready |-> model_ready, gen |-> gen,
                    response |-> get_gemini_rag_response(Rows(assembly.n),
                                                         LookupOfKind(assembly.kind),
                                                         model_ready,
                                                         assembly.query_ok, gen)]
    /\ UNCHANGED <<tables, gemini, req, last, call, provider, validation>>

NextRag ==
    \/ \E n \in 0..MaxDocs, kind \in FileKinds, query_ok \in BOOLEAN :
          \E max_context_length \in Budgets(n) :
             AssemblyEnter(n, kind, max_context_length, query_ok)
    \/ AssemblyContext
    \/ \E model_ready \in BOOLEAN, gen \in GenOutcomes : AssemblyRespond(model_ready, gen)

SpecRag == Init /\ [][NextRag]_vars

\* =================================================================== claims
\* What a provider script makes of an update: the frame call_deepseek_llm
\* ends with, the value json.loads gives, and whether the pipeline fails
\* before it has a validated plan.
ScriptFrame(script) == call_deepseek_llm(script)
ScriptLoaded(script) == JsonLoads(ScriptFrame(script).value)
ScriptFails(script) ==
    \/ ScriptFrame(script).status = "raised"
    \/ ~ScriptLoaded(script).ok
    \/ ~ProjectPlan(ScriptLoaded(script).value).ok
ScriptPlan(script) == ProjectPlan(ScriptLoaded(script).value).plan

\* C1: an update whose LLM call fails after its retries, whose model output
\* is not JSON, or whose decoded output does not pass the plan schema, leaves
\* every stored plan as it was and is answered with a 500; so a plan is only
\* ever written from an output that was decoded and validated.
C1_FailedUpdateKeepsPlan ==
    [][\A r \in Reqs, script \in Scripts, commit_ok \in BOOLEAN :
          (update_project_state_commit(r, script, commit_ok) /\ ScriptFails(script))
              => (plans' = plans /\ last'.status = 500)]_vars

\* A schema-invalid update has just failed on a project whose plan an earlier
\* update had set, and that plan is still the stored one.
C1_Witness ==
    /\ last.op = "update" /\ last.status = 500
    /\ last.error = "LLM returned invalid plan structure or data"
    /\ plans[last.pid] = JsonDumps(last.current)
    /\ last.current # DefaultPlan

\* C2: right after a successful update the stored plan_json is the dump of
\* the validated plan in the response, nothing of the replaced plan added,
\* and loading the project (GET /project/{id}) returns that same plan.
C2_StoredIsReturnedPlan ==
    (last.op = "update" /\ last.status = 200) =>
        /\ plans[last.pid] = JsonDumps(last.body)
        /\ ProjectPlan(last.body).ok /\ ProjectPlan(last.body).plan = last.body
        /\ GetProjectResponse(last.pid).status = 200
        /\ GetProjectResponse(last.pid).body = last.body

\* A successful update has replaced a plan that carried a key ("owner") the
\* new plan does not have.
C2_Witness ==
    /\ last.op = "update" /\ last.status = 200
    /\ "owner" \in DOMAIN LoadPlan(last.replaced).v
    /\ "owner" \notin DOMAIN last.body.v
    /\ plans[last.pid] = JsonDumps(last.body)

\* C3: an update that reaches its commit with a validated plan and a database
\* that accepts the write always succeeds and stores exactly its own plan,
\* whatever plan_json holds by then: no lock, version check or merge, so of
\* two overlapping updates the one that commits last wins.
C3_LastWriteWins ==
    [][\A r \in Reqs, script \in Scripts :
          (update_project_state_commit(r, script, TRUE) /\ ~ScriptFails(script))
              => /\ last'.status = 200
                 /\ last'.body = ScriptPlan(script)
                 /\ plans'[req[r].pid] = JsonDumps(ScriptPlan(script))]_vars

\* Both updates have finished; the second one to commit had loaded the plan
\* before the first one wrote, replaced the first one's plan and its own
\* plan is the stored one.
C3_Witness ==
    /\ last.op = "update" /\ last.status = 200
    /\ last.replaced.t = "json" /\ last.replaced.v.indent = 0
    /\ LoadPlan(last.replaced) # last.current
    /\ LoadPlan(last.replaced) # last.body
    /\ plans[last.pid] = JsonDumps(last.body)
    /\ \A r \in Reqs : req[r] = Idle

\* C4: a step that answers a recommend or recommend_with_docs request,
\* successfully or not, changes no stored plan, no document row and no file
\* of the file-search service.
C4_RecommendReadOnly ==
    [][(last' # last /\ last'.op \in {"recommend", "recommend_with_docs"})
          => (plans' = plans /\ docs' = docs /\ nextDoc' = nextDoc /\ files' = files)]_vars

\* A recommendation has just failed for a project that has a plan of its own
\* and a document.
C4_Witness ==
    /\ last.op = "recommend" /\ last.status = 500
    /\ plans[last.pid] # JsonDumps(DefaultPlan)
    /\ ProjectDocs(last.pid) # {}

\* C5: update, recommend, upload, recommend_with_docs and update_with_docs
\* on a project id that does not exist are answered 404 in their first step,
\* with no provider call and no file-search call made and nothing changed,
\* and no such request gets past that step; delete_document on a document id
\* that does not exist is answered 404 with no delete sent to the
\* file-search service.
ProjectOps == {"update", "recommend", "upload", "recommend_with_docs", "update_with_docs"}

C5_NotFoundBeforeExternalCalls ==
    [][/\ (last' # last /\ last'.op \in ProjectOps /\ ~ProjectExists(last'.pid))
            => /\ last'.status = 404 /\ last'.llm = 0 /\ last'.fs = 0
               /\ plans' = plans /\ docs' = docs
               /\ files' = files /\ nextFile' = nextFile
       /\ \A r \in Reqs :
            (req'[r] # req[r] /\ req'[r].op \in ProjectOps) => ProjectExists(req'[r].pid)
       /\ \A r \in Reqs, document_id \in DocIds, ext_ok \in BOOLEAN :
            (delete_document(r, document_id, ext_ok) /\ DocById(document_id) = {})
                => /\ last'.status = 404 /\ last'.fs = 0
                   /\ files' = files /\ req' = req]_vars

\* An upload for a missing project has been answered 404 while the
\* file-search service was configured and another project's document exists.
C5_Witness ==
    /\ last.op = "upload" /\ last.status = 404 /\ last.fs = 0
    /\ ~ProjectExists(last.pid)
    /\ configured /\ docs # {}

\* Every outcome of a sequence is a failure whose message is transient.
AllTransient(outcomes) ==
    \A i \in 1..Len(outcomes) : ~outcomes[i].ok /\ IsTransient(outcomes[i].msg)
Front(outcomes) == SubSeq(outcomes, 1, Len(outcomes) - 1)
Final(outcomes) == outcomes[Len(outcomes)]

\* C6: while every provider call made so far has failed with a transient
\* error, the client keeps calling until it has made max_retries + 1 calls,
\* and with the last of them raises RuntimeError reporting max_retries + 1
\* attempts and the last error, after max_retries backoff waits.
C6_TransientExhaustsRetries ==
    (provider # <<>> /\ AllTransient(provider)) =>
        IF Len(provider) <= call.max_retries
        THEN call.status = "running" /\ call.calls = Len(provider)
        ELSE /\ call.status = "raised"
             /\ Len(provider) = call.max_retries + 1
             /\ call.calls = call.max_retries + 1
             /\ Len(call.waits) = call.max_retries
             /\ call.exc = LLMCallFailed(call.max_retries + 1, Final(provider).msg)

\* The client has raised after three retries that all failed transiently.
C6_Witness ==
    /\ call.status = "raised" /\ call.max_retries = 3
    /\ Len(provider) = 4 /\ AllTransient(provider)

\* C7: when the provider has failed transiently k times and then answered,
\* the client has made exactly k + 1 calls, k <= max_retries, and has
\* returned the content of that answer as it came; being returned, it makes
\* no further call.
C7_SuccessAfterTransients ==
    (provider # <<>> /\ Final(provider).ok /\ AllTransient(Front(provider))) =>
        /\ call.status = "returned"
        /\ call.calls = Len(provider)
        /\ Len(provider) - 1 <= call.max_retries
        /\ Len(call.waits) = Len(provider) - 1
        /\ call.value = Final(provider).content

\* The client has returned a reply that came after two transient failures.
C7_Witness ==
    /\ call.status = "returned" /\ Len(provider) = 3
    /\ Final(provider).ok /\ AllTransient(Front(provider))
    /\ call.value = Final(provider).content

\* The classification the claim's wording gives: transient means rate limit,
\* timeout, connection or try again.
ClaimedTransient(msg) ==
    \E kw \in {KwRateLimit, KwTimeout, KwConnection, KwTryAgain} : Contains(Lower(msg), kw)

\* C8, as stated: a failure that is not a rate-limit, timeout, connection or
\* try-again error makes the client raise at once, with no further call and
\* no backoff wait after it.
C8_AsStated ==
    (provider # <<>> /\ ~Final(provider).ok /\ ~ClaimedTransient(Final(provider).msg)) =>
        /\ call.status = "raised"
        /\ call.calls = Len(provider)
        /\ Len(call.waits) = Len(provider) - 1

\* C8, amended: a failure whose message holds none of the five keywords
\* (rate limit, timeout, connection, temporary, try again) makes the client
\* raise at once, whatever max_retries is and however many transient
\* failures came before: that call is the last and no backoff wait follows.
C8_PermanentRaisesAtOnce ==
    (provider # <<>> /\ ~Final(provider).ok /\ ~IsTransient(Final(provider).msg)) =>
        /\ call.status = "raised"
        /\ call.calls = Len(provider)
        /\ Len(call.waits) = Len(provider) - 1
        /\ AllTransient(Front(provider))
        /\ call.exc = LLMCallFailed(Len(provider), Final(provider).msg)

\* The client has raised on a permanent error that followed two transient
\* ones, with retries still left.
C8_Witness ==
    /\ call.status = "raised" /\ Len(provider) = 3
    /\ Len(provider) <= call.max_retries
    /\ ~IsTransient(Final(provider).msg)

\* The model's reply is well-formed JSON whose top-level value is no object.
NonObjectReply(script) ==
    /\ ScriptFrame(script).status = "returned"
    /\ ScriptLoaded(script).ok
    /\ ~IsDict(ScriptLoaded(script).value)

\* C9: an update whose model output is well-formed JSON with an array, a
\* string, a number or null at the top level fails with a ValueError that
\* reports non-dictionary JSON or an invalid plan structure, not with a
\* RuntimeError, and stores nothing.
C9_NonObjectIsValueError ==
    [][\A r \in Reqs, script \in Scripts, commit_ok \in BOOLEAN :
          (update_project_state_commit(r, script, commit_ok) /\ NonObjectReply(script))
              => /\ last'.status = 500
                 /\ last'.exc = "ValueError"
                 /\ last'.error \in {"LLM returned non-dictionary JSON",
                                     "LLM returned invalid plan structure or data"}
                 /\ plans' = plans]_vars

\* An update has failed with the RuntimeError state_updater_llm wraps
\* unexpected exceptions in.
C9_Witness ==
    /\ last.op = "update" /\ last.status = 500
    /\ last.exc = "RuntimeError" /\ last.error = "State updater LLM failed"

\* The model's reply is a JSON object that leaves out at least one of tasks,
\* risks, milestones and whose declared fields, where present, are well-formed.
OmitsFields(script) ==
    /\ ScriptFrame(script).status = "returned"
    /\ ScriptLoaded(script).ok
    /\ IsDict(ScriptLoaded(script).value)
    /\ PlanFields \ DOMAIN ScriptLoaded(script).value.v # {}
    /\ \A f \in PlanFields \cap DOMAIN ScriptLoaded(script).value.v :
           FieldValid(f, ScriptLoaded(script).value.v[f])

C11_OmittedKeysFromCurrentPlan ==
    [][\A r \in Reqs, script \in Scripts :
          (update_project_state_commit(r, script, TRUE) /\ OmitsFields(script))
              => /\ last'.status = 200
                 /\ \A f \in PlanFields \ DOMAIN ScriptLoaded(script).value.v :
                        f \in DOMAIN req[r].current.v
                            => /\ f \in DOMAIN last'.body.v
                               /\ last'.body.v[f] = req[r].current.v[f]]_vars

\* An update whose output left out tasks has returned a plan whose tasks
\* differ from those of the current plan it was given.
C11_Witness ==
    /\ last.op = "update" /\ last.status = 200
    /\ "owner" \in DOMAIN last.body.v
    /\ "tasks" \in DOMAIN last.current.v
    /\ last.body.v["tasks"] # last.current.v["tasks"]

\* C13: every existing project's plan_json is the JSON text of an object
\* that has all of tasks, risks and milestones, and the plan of a project
\* just created is the empty default.
C13_PersistedPlanHasAllKeys ==
    /\ \A pid \in 1..Len(plans) :
          /\ plans[pid].t = "json"
          /\ IsDict(plans[pid].v.value)
          /\ PlanFields \subseteq DOMAIN plans[pid].v.value.v
    /\ (last.op = "create" => plans[last.pid] = JsonDumps(DefaultPlan))

\* update_with_docs has succeeded and the plan_json it stored has no risks key.
C13_Witness ==
    /\ last.op = "update_with_docs" /\ last.status = 200
    /\ plans[last.pid].t = "json"
    /\ "risks" \notin DOMAIN plans[last.pid].v.value.v

C19_RagFailureIs500 ==
    [][\A r \in Reqs, pid \in ProjectIds, rag_query_ok \in BOOLEAN, gen \in GenOutcomes :
          (recommend_with_docs(r, pid, rag_query_ok, gen) /\ ProjectExists(pid)
             /\ configured /\ ~gen.ok)
              => /\ last'.status = 500
                 /\ last'.detail = "Error generating RAG response"]_vars

\* The model's reply is no text, or is text that is empty or only whitespace.
EmptyOrInvalidReply(script) ==
    /\ ScriptFrame(script).status = "returned"
    /\ \/ ScriptFrame(script).value.t \notin {"str", "json"}
       \/ /\ ScriptFrame(script).value.t = "str"
          /\ \A i \in 1..Len(ScriptFrame(script).value.v) :
                 ScriptFrame(script).value.v[i] \in Whitespace

\* C20: a recommend request whose model reply is no text, empty or only
\* whitespace fails: recommender_llm raises ValueError and the endpoint
\* answers 500; and a recommendation answered 200 is never blank.
C20_BlankRecommendationFails ==
    [][/\ \A r \in Reqs, pid \in ProjectIds, script \in Scripts :
            (recommend_project_state(r, pid, script) /\ ProjectExists(pid)
               /\ EmptyOrInvalidReply(script))
                => /\ last'.status = 500
                   /\ last'.exc = "ValueError"
                   /\ last'.error \in {"LLM returned non-string response",
                                       "LLM returned empty response"}
       /\ (last' # last /\ last'.op = "recommend" /\ last'.status = 200)
            => /\ IsStr(last'.body)
               /\ (last'.body.t = "str" =>
                     \E i \in 1..Len(last'.body.v) : last'.body.v[i] \notin Whitespace)]_vars

\* A recommend request has failed on a reply that was only whitespace or empty.
C20_Witness ==
    /\ last.op = "recommend" /\ last.status = 500
    /\ last.exc = "ValueError" /\ last.error = "LLM returned empty response"

\* Plan data whose three fields are all present and well-typed.
WellFormedPlan(data) ==
    /\ IsDict(data)
    /\ PlanFields \subseteq DOMAIN data.v
    /\ IsListOfDict(data.v["tasks"])
    /\ IsListOfStr(data.v["risks"])
    /\ IsListOfDict(data.v["milestones"])

\* C12: validating a well-formed plan succeeds and yields that plan: the
\* three fields and every extra top-level key keep their values, and
\* validating the result again yields it again.
C12_ValidateIsIdentityOnPlans ==
    (validation.pc \in {"validated", "revalidated"} /\ WellFormedPlan(validation.data))
        => /\ validation.result.ok
           /\ DOMAIN validation.result.plan.v = DOMAIN validation.data.v
           /\ \A k \in DOMAIN validation.data.v :
                  validation.result.plan.v[k] = validation.data.v[k]
           /\ validation.result.plan = validation.data
           /\ validation.pc = "revalidated" => validation.result = validation.first

\* A well-formed plan with a task, a risk and an extra key has been
\* validated twice.
C12_Witness ==
    /\ validation.pc = "revalidated"
    /\ WellFormedPlan(validation.data)
    /\ "owner" \in DOMAIN validation.data.v
    /\ validation.data.v["tasks"] = PyList(<<TaskA, TaskB>>)
    /\ validation.data.v["risks"] = PyList(<<RiskA>>)

\* C14: the text get_rag_context returns is never longer than
\* max_context_length, the separators between blocks included.
C14_ContextWithinBudget ==
    assembly.pc \in {"assembled", "responded"}
        => ContextLen(assembly.context.parts) <= assembly.max_context_length

\* Two blocks were accepted under a budget equal to the sum of their lengths.
C14_Witness ==
    /\ assembly.pc = "assembled"
    /\ Len(assembly.context.parts) = 2
    /\ assembly.context.total = assembly.max_context_length

\* C15: the text get_rag_context returns exceeds max_context_length by no
\* more than the length of the last block accepted, and every block in it
\* holds the whole content of its file.
C15_OvershootWithinLastBlock ==
    assembly.pc \in {"assembled", "responded"}
        => LET parts == assembly.context.parts
           IN  /\ ContextLen(parts) <=
                    assembly.max_context_length
                    + (IF parts = <<>> THEN 0 ELSE BlockLen(parts[Len(parts)]))
               /\ \A i \in 1..Len(parts) :
                    parts[i].content =
                      LookupOfKind(assembly.kind)[parts[i].doc.gemini_corpus_doc_id].content

\* The budget stopped the loop before the last document: every block but
\* that one is in the context.
C15_Witness ==
    /\ assembly.pc = "assembled"
    /\ assembly.kind = "active" /\ assembly.query_ok
    /\ assembly.n = MaxDocs
    /\ Len(assembly.context.parts) = MaxDocs - 1

\* No document of the project yields content: there is none, every file
\* fails, or the query for the rows raises.
NothingRetrieved ==
    \/ assembly.n = 0
    \/ assembly.kind \in {"raises", "missing", "processing", "unreadable", "empty"}
    \/ ~assembly.query_ok

\* C16: get_rag_context returns "" and raises nothing when the project has
\* no documents, when no document can be retrieved, and when the query for
\* the documents raises.
C16_EmptyContextOnFailure ==
    (assembly.pc \in {"assembled", "responded"} /\ NothingRetrieved)
        => /\ ~assembly.context.raised
           /\ assembly.context.parts = <<>>
           /\ ContextLen(assembly.context.parts) = 0

\* The query for the rows of a project with documents raised and the
\* assembler returned.
C16_Witness ==
    /\ assembly.pc = "assembled"
    /\ assembly.n > 0 /\ assembly.kind = "active" /\ ~assembly.query_ok
    /\ assembly.context.parts = <<>>

\* C17: with the generation model configured, get_gemini_rag_response calls
\* the model exactly once whatever context assembly gave; an empty context is
\* replaced by the placeholder, and the request succeeds whenever the model
\* answers.
C17_ModelCalledOnceWhateverContext ==
    (assembly.pc = "responded" /\ assembly.model_ready)
        => /\ assembly.response.llm = 1
           /\ assembly.response.placeholder
                <=> (get_rag_context(Rows(assembly.n), LookupOfKind(assembly.kind),
                                     DefaultMaxContext, assembly.query_ok).parts = <<>>)
           /\ assembly.gen.ok
                => /\ assembly.response.ok /\ assembly.response.status = 200
                   /\ assembly.response.text = assembly.gen.content

\* The model answered a request whose documents could all not be retrieved.
C17_Witness ==
    /\ assembly.pc = "responded"
    /\ assembly.model_ready /\ assembly.gen.ok
    /\ assembly.n > 0 /\ assembly.kind = "raises" /\ assembly.query_ok
    /\ assembly.response.ok /\ assembly.response.placeholder

\* C21: an upload that does not succeed at the file-search service creates
\* no row and leaves the documents as they were; a row is added only by a
\* request whose upload succeeded, and it carries the id that upload
\* returned.
C21_RowOnlyAfterSuccessfulUpload ==
    [][/\ \A r \in Reqs, pid \in ProjectIds, read_ok \in BOOLEAN, outcome \in UploadOutcomes :
            (upload_document(r, pid, read_ok, outcome)
               /\ ~(UploadSent(pid, read_ok) /\ outcome = "ok"))
                => /\ docs' = docs
                   /\ req' = req
                   /\ last'.op = "upload" /\ last'.status \notin {200, 201}
       /\ \A d \in docs' \ docs :
            \E r \in Reqs : /\ req[r].op = "upload" /\ req[r].pc = "uploaded"
                            /\ req[r].gid = d.gemini_corpus_doc_id
       /\ \A r \in Reqs :
            (req'[r].pc = "uploaded" /\ req[r].pc # "uploaded")
                => /\ \E pid \in ProjectIds, read_ok \in BOOLEAN :
                         upload_document(r, pid, read_ok, "ok") /\ UploadSent(pid, read_ok)
                   /\ req'[r].gid = nextFile /\ nextFile \in files' \ files]_vars

\* An upload whose processing timed out has been answered 408: the file is
\* in the service and the project has no row.
C21_Witness ==
    /\ last.op = "upload" /\ last.status = 408
    /\ files # {} /\ docs = {}

\* C22: delete_document for an existing document first calls the external
\* delete, leaving the row, and then deletes the row; whatever the external
\* delete did, the row is removed and the request answered 200.
C22_RowDeletedWhateverExternalDelete ==
    [][/\ \A r \in Reqs, document_id \in DocIds, ext_ok \in BOOLEAN :
            (delete_document(r, document_id, ext_ok) /\ DocById(document_id) # {})
                => /\ docs' = docs
                   /\ req'[r].pc = "deleting"
                   /\ req'[r].fs = (IF configured THEN 1 ELSE 0)
                   /\ files' \subseteq files
       /\ \A r \in Reqs :
            (delete_document_commit(r, TRUE) /\ DocById(req[r].pid) # {})
                => /\ docs' = docs \ DocById(req[r].pid)
                   /\ last'.status = 200
                   /\ last'.detail = "deleted successfully"]_vars

\* A document was deleted with success although the external delete, which
\* was attempted, left the file in the service.
C22_Witness ==
    /\ last.op = "delete_document" /\ last.status = 200
    /\ last.fs = 1
    /\ docs = {} /\ files # {}

\* C23: the waits of the LLM client are 1, 2, 4, ... seconds, the i-th being
\* 2^(i-1) and double the one before; there are at most max_retries of them,
\* none before the first provider call, and one after every failed call but
\* the one the client raises on (the last allowed attempt or a permanent
\* error), so a finished call has waited one time less than it called.
C23_ExponentialBackoffBetweenAttempts ==
    call.status \in {"running", "returned", "raised"} =>
        /\ \A i \in 1..Len(call.waits) :
              /\ call.waits[i] = 2 ^ (i - 1)
              /\ i > 1 => call.waits[i] = 2 * call.waits[i - 1]
        /\ call.calls = 0 => call.waits = <<>>
        /\ call.max_retries >= 0 => Len(call.waits) <= call.max_retries
        /\ call.status = "running" => Len(call.waits) = call.calls
        /\ (call.status \in {"returned", "raised"} /\ call.calls > 0)
              => Len(call.waits) = call.calls - 1
        /\ Len(call.waits) = Len(provider) - (IF call.status = "running" THEN 0 ELSE 1)
              \/ provider = <<>>

\* The client has raised on its fourth attempt after waiting 1, 2 and 4
\* seconds.
C23_Witness ==
    /\ call.status = "raised" /\ call.calls = 4
    /\ call.waits = <<1, 2, 4>>

\* C29: whatever max_retries is, a call of the LLM client that has ended has
\* either raised RuntimeError or returned the content of a provider call
\* that succeeded; it never returns without such a call.
C29_ReturnsOnlyProviderContent ==
    /\ call.status \in {"unused", "running", "returned", "raised"}
    /\ call.status = "raised" =>
          /\ provider # <<>> /\ ~Final(provider).ok
          /\ call.exc = LLMCallFailed(call.calls, Final(provider).msg)
    /\ call.status = "returned" =>
          /\ call.calls > 0
          /\ provider # <<>> /\ Final(provider).ok
          /\ call.value = Final(provider).content

\* The client, called with max_retries = -1, has returned None without
\* calling the provider.
C29_Witness ==
    /\ call.status = "returned" /\ call.max_retries = 0 - 1
    /\ call.calls = 0 /\ provider = <<>>
    /\ call.value = PyNone

\* C28: an update or recommend request for an existing project runs the LLM
\* client once: the provider calls it causes are those of that one call, at
\* least one and at most max_retries + 1 = 4, and the request ends with its
\* answer, failed or not, without being run again.
C28_OneClientCallPerRequest ==
    [][/\ \A r \in Reqs, script \in Scripts, commit_ok \in BOOLEAN :
            update_project_state_commit(r, script, commit_ok)
                => /\ last'.llm = Len(script)
                   /\ last'.llm \in 1..(DefaultMaxRetries + 1)
                   /\ last'.op = "update" /\ last'.status \in {200, 500}
                   /\ req'[r] = Idle
       /\ \A r \in Reqs, pid \in ProjectIds, script \in Scripts :
            (recommend_project_state(r, pid, script) /\ ProjectExists(pid))
                => /\ last'.llm = Len(script)
                   /\ last'.llm \in 1..(DefaultMaxRetries + 1)
                   /\ last'.op = "recommend" /\ last'.status \in {200, 500}
                   /\ req'[r] = Idle]_vars

\* A recommend request has failed after the four provider calls of its one
\* client call.
C28_Witness ==
    /\ last.op = "recommend" /\ last.status = 500
    /\ last.llm = DefaultMaxRetries + 1
    /\ \A r \in Reqs : req[r] = Idle

BodyRejected(arg) ==
    \/ ~JsonLoads(arg).ok
    \/ ~IsDict(JsonLoads(arg).value)
    \/ \E f \in PlanFields \cap DOMAIN JsonLoads(arg).value.v :
          ~FieldValid(f, JsonLoads(arg).value.v[f])

\* C27: an update_with_docs request for an existing project whose
\* updated_plan_json is no JSON or does not pass the plan schema is rejected
\* without any call to the generation model or the file-search service, and
\* no stored plan changes.
C27_BadBodyRejectedBeforeExternalCalls ==
    [][\A r \in Reqs, pid \in ProjectIds, arg \in UpdateArgs,
          rag_query_ok \in BOOLEAN, gen \in GenOutcomes :
          (update_project_with_docs(r, pid, arg, rag_query_ok, gen)
             /\ ProjectExists(pid) /\ BodyRejected(arg))
              => /\ last'.op = "update_with_docs" /\ last'.status >= 400
                 /\ last'.llm = 0 /\ last'.fs = 0
                 /\ plans' = plans
                 /\ req' = req]_vars

\* A body the schema rejects has been answered 500 after the generation
\* model was called.
C27_Witness ==
    /\ last.op = "update_with_docs" /\ last.status = 500
    /\ last.exc \in {"ValidationError", "TypeError"}
    /\ last.llm = 1

\* C30: whenever no upload or delete is under way, every row names a file
\* that is still in the file-search service: no delete_document, failed or
\* not, has removed the file and left the row.
C30_RowsNameExistingFiles ==
    (\A r \in Reqs : req[r].pc = "idle")
        => \A d \in docs : d.gemini_corpus_doc_id \in files

\* A delete_document request has failed at the database delete after its
\* external delete removed the file: the row is there, the file is not.
C30_Witness ==
    /\ last.op = "delete_document" /\ last.status = 500
    /\ \A r \in Reqs : req[r].pc = "idle"
    /\ \E d \in docs : d.gemini_corpus_doc_id \notin files

\* The file of a row gives content: get_file and text_content do not raise,
\* the file is there and ACTIVE, and its text is not empty.
Retrievable(kind, d) ==
    LET file == LookupOfKind(kind)[d.gemini_corpus_doc_id]
    IN  /\ ~file.raises /\ file.found /\ file.state = "ACTIVE"
        /\ file.readable /\ file.content # <<>>

\* The rows of the project under assembly that give content, and the block
\* of such a row.
RetrievableRows == {d \in Rows(assembly.n) : Retrievable(assembly.kind, d)}
BlockOf(d) ==
    [doc |-> d,
     content |-> LookupOfKind(assembly.kind)[d.gemini_corpus_doc_id].content]

\* Sum of the block lengths of a set of rows.
RECURSIVE SumBlocks(_)
SumBlocks(S) ==
    IF S = {} THEN 0
    ELSE LET d == CHOOSE x \in S : TRUE
         IN  BlockLen(BlockOf(d)) + SumBlocks(S \ {d})

\* The rows whose blocks are in the context.
IncludedRows == {assembly.context.parts[i].doc : i \in 1..Len(assembly.context.parts)}

\* C24: the blocks of the context are in ascending upload order and are the
\* longest prefix of the retrievable documents, in that order, whose block
\* lengths sum to at most max_context_length: every retrievable document
\* older than an included one is included, and when a retrievable document
\* is left out, the oldest one left out did not fit, whether or not a later
\* one would have.
C24_LongestPrefixInUploadOrder ==
    (assembly.pc \in {"assembled", "responded"} /\ assembly.query_ok)
        => LET parts == assembly.context.parts
           IN  /\ \A i, j \in 1..Len(parts) :
                     i < j => parts[i].doc.uploaded_at < parts[j].doc.uploaded_at
               /\ \A i \in 1..Len(parts) : parts[i] = BlockOf(parts[i].doc)
               /\ IncludedRows \subseteq RetrievableRows
               /\ \A d \in IncludedRows, e \in RetrievableRows :
                     e.uploaded_at < d.uploaded_at => e \in IncludedRows
               /\ SumBlocks(IncludedRows) <= assembly.max_context_length
               /\ \A e \in RetrievableRows \ IncludedRows :
                     (\A x \in RetrievableRows \ IncludedRows :
                         e.uploaded_at <= x.uploaded_at)
                       => SumBlocks(IncludedRows) + BlockLen(BlockOf(e))
                            > assembly.max_context_length

\* The oldest document's block did not fit a budget in which the block of
\* the next one would have fitted, and the context is empty.
C24_Witness ==
    /\ assembly.pc = "assembled" /\ assembly.query_ok
    /\ assembly.kind = "shrinking" /\ assembly.n >= 2
    /\ assembly.max_context_length = BlockSum(1) - 1
    /\ BlockLen(BlockOf(DocRow(2, 1, 2))) <= assembly.max_context_length
    /\ assembly.context.parts = <<>>

\* C25: a document whose file is missing, not ACTIVE, without content or
\* raising is left out and nothing else: it takes none of the budget, and
\* every retrievable document is included whose block, added to those of the
\* retrievable documents before it, stays within the budget.
C25_FailingDocumentSkippedAlone ==
    (assembly.pc \in {"assembled", "responded"} /\ assembly.query_ok)
        => /\ \A d \in Rows(assembly.n) \ RetrievableRows : d \notin IncludedRows
           /\ assembly.context.total = SumBlocks(IncludedRows)
           /\ \A d \in RetrievableRows :
                 SumBlocks({e \in RetrievableRows : e.uploaded_at <= d.uploaded_at})
                     <= assembly.max_context_length
                   => d \in IncludedRows

\* Of MaxDocs documents with every kind of failure among them, all the
\* retrievable ones, and only they, are in the context.
C25_Witness ==
    /\ assembly.pc = "assembled" /\ assembly.query_ok
    /\ assembly.kind = "faulty" /\ assembly.n = MaxDocs
    /\ Len(assembly.context.parts) >= 2
    /\ IncludedRows = RetrievableRows
    /\ RetrievableRows # Rows(assembly.n)

====
